---- MODULE Spec2Model ----
(***************************************************************************)
(* Rainfall PDF Parser API (main.py): the two ingestion endpoints           *)
(* /process-pdf and /process-pdf-base64, run by concurrent workers against  *)
(* one temporary directory and one MongoDB collection.                      *)
(***************************************************************************)
EXTENDS Integers, Sequences, FiniteSets, TLC

(* ------------------------------ bounds --------------------------------- *)
NumRequests == 2
MaxRecords == 2

Requests == 1..NumRequests

(* --------------------------- program constants -------------------------- *)
max_size == 10 * 1024 * 1024

None == "None"
NoException == [type |-> "None"]
NoResponse == [type |-> "None"]
NoContent == [size |-> -1, doc |-> "none"]

(* ------------------------------ inputs ---------------------------------- *)
Dates == {"15/01/2024", "16/01/2024"}

\* os.environ.get('MONGODB_URI'): unset, set to the empty string, or set
Environments == {None, "", "mongodb://db"}

\* what a PDF holds: a table of 0..MaxRecords rows, or bytes the parser rejects
PdfDocs == {"corrupt"} \cup {ToString(n) : n \in 0..MaxRecords}

Filenames == { <<"R", ".", "P", "d", "F">>, <<"r", ".", "t", "x", "t">>,
               <<"p", "d", "f">> }

FileSizes == {max_size, max_size + 1}

\* a base64 text: its count of alphabet characters, its trailing '=' count,
\* whether it is ASCII only
Base64Texts ==
    { [ndata |-> 13981014, npad |-> 2, ascii |-> TRUE],
      [ndata |-> 13981015, npad |-> 1, ascii |-> TRUE],
      [ndata |-> 5, npad |-> 0, ascii |-> TRUE],
      [ndata |-> 6, npad |-> 1, ascii |-> TRUE],
      [ndata |-> 4, npad |-> 0, ascii |-> FALSE] }

(* --------------------------- pure functions ----------------------------- *)
\* str.lower() on the characters file names are drawn from
LowerChar(c) ==
    CASE c = "R" -> "r"
      [] c = "P" -> "p"
      [] c = "D" -> "d"
      [] c = "F" -> "f"
      [] OTHER -> c

Lower(s) == [i \in 1..Len(s) |-> LowerChar(s[i])]

\* a suffix test that skips the suffix's first character
EndsWithSkippingFirst(s, suffix) ==
    /\ Len(s) >= Len(suffix) - 1
    /\ SubSeq(s, Len(s) - Len(suffix) + 2, Len(s)) = Tail(suffix)

EndsWith(s, suffix) ==
    /\ Len(s) >= Len(suffix)
    /\ SubSeq(s, Len(s) - Len(suffix) + 1, Len(s)) = suffix

DotPdf == <<".", "p", "d", "f">>

\* base64.b64decode(text) with validate=False: does it raise
B64Raises(t) ==
    \/ ~t.ascii
    \/ (t.ndata % 4) = 1
    \/ (t.ndata % 4) >= 2 /\ (t.ndata % 4) + t.npad < 4

\* base64.b64decode(text): the number of bytes decoded
B64DecodedSize(t) ==
    3 * (t.ndata \div 4)
        + (IF (t.ndata % 4) >= 2 THEN (t.ndata % 4) - 1 ELSE 0)

\* str(e)
Str(e) ==
    IF e.type = "HTTPException"
    THEN ToString(e.status_code) \o ": " \o e.detail
    ELSE e.msg

HTTPException(status_code, detail) ==
    [type |-> "HTTPException", status_code |-> status_code, detail |-> detail]

Exception(msg) == [type |-> "Exception", msg |-> msg]

\* the columns and rows FixedRainfallParser extracts from a document
ParsedColumns(doc) ==
    IF doc = "2" THEN {"station", "date"} ELSE {"station", "rainfall"}

ParsedRow(doc, i) ==
    [c \in ParsedColumns(doc) |->
        IF c = "date" THEN "stale" ELSE doc \o "/" \o ToString(i)]

ParserRaises(doc) == doc = "corrupt"

process_pdf_to_dataframe(doc) ==
    IF \E n \in 1..MaxRecords : doc = ToString(n)
    THEN LET n == CHOOSE k \in 1..MaxRecords : doc = ToString(k)
         IN  [i \in 1..n |-> ParsedRow(doc, i)]
    ELSE << >>

\* an emptiness test that never reports an empty frame
EmptyNever(df) == FALSE

\* an emptiness test that looks at the columns only, not at the row count
EmptyWhenNoColumns(df) == \E i \in 1..Len(df) : DOMAIN df[i] = {}

\* df.empty
Empty(df) == Len(df) = 0 \/ \E i \in 1..Len(df) : DOMAIN df[i] = {}

\* a stamping that keeps a 'date' column the parser already produced
SetDateColumnKeepExisting(df, date) ==
    [i \in 1..Len(df) |->
        [c \in DOMAIN df[i] \cup {"date"} |->
            IF c \in DOMAIN df[i] THEN df[i][c] ELSE date]]

\* df['date'] = date; df.to_dict('records')
SetDateColumn(df, date) ==
    [i \in 1..Len(df) |->
        [c \in DOMAIN df[i] \cup {"date"} |->
            IF c = "date" THEN date ELSE df[i][c]]]

(* ------------------------------- state ---------------------------------- *)
VARIABLES
    MONGODB_URI,   \* the environment variable, as os.environ.get returns it
    pc,            \* where each request's handler stands
    request,       \* what each request carries
    pdf_content,   \* the bytes the handler holds (pdf_content / pdf_data)
    temp_file,     \* the NamedTemporaryFile's name, 0 before it is created
    temp_path,     \* temp_path, 0 before temp_path = temp_file.name runs
    storage,       \* the temporary directory: path -> content, or absent
    records,       \* df.to_dict('records')
    client,        \* the request's MongoClient: "none", "open", "closed"
    inserted,      \* how many documents of the batch insert_many has written
    collection,    \* rainfall-data.rainfalldatas
    raised,        \* the first exception the handler raised
    exc,           \* the exception now propagating
    response,      \* what the caller receives
    trace          \* the steps each handler has run, in order

vars == << MONGODB_URI, pc, request, pdf_content, temp_file, temp_path,
           storage, records, client, inserted, collection, raised, exc,
           response, trace >>

TempPaths == 1..NumRequests
Absent == [size |-> -1, doc |-> "absent"]
\* a file whose write faulted: created, its bytes not written
Truncated == [size |-> 0, doc |-> "none"]

Init ==
    /\ MONGODB_URI \in Environments
    /\ pc = [r \in Requests |-> "start"]
    /\ request = [r \in Requests |-> [kind |-> "none"]]
    /\ pdf_content = [r \in Requests |-> NoContent]
    /\ temp_file = [r \in Requests |-> 0]
    /\ temp_path = [r \in Requests |-> 0]
    /\ storage = [p \in TempPaths |-> Absent]
    /\ records = [r \in Requests |-> << >>]
    /\ client = [r \in Requests |-> "none"]
    /\ inserted = [r \in Requests |-> 0]
    /\ collection = {}
    /\ raised = [r \in Requests |-> NoException]
    /\ exc = [r \in Requests |-> NoException]
    /\ response = [r \in Requests |-> NoResponse]
    /\ trace = [r \in Requests |-> << >>]

(* ------------------------- response construction ------------------------ *)
\* FastAPI's rendering of a raised HTTPException
ErrorResponse(e) ==
    [type |-> "error", success |-> FALSE, status_code |-> e.status_code,
     detail |-> e.detail]

\* PDFProcessResponse(success=True, records_count=..., ...)
PDFProcessResponse(records_count) ==
    [type |-> "ok", success |-> TRUE, status_code |-> 200,
     records_count |-> records_count]

\* a boundary that hides the underlying message
OuterHandlerGeneric(e) ==
    IF e.type = "HTTPException"
    THEN [type |-> "error", success |-> FALSE,
          status_code |-> e.status_code, detail |-> e.detail]
    ELSE [type |-> "error", success |-> FALSE, status_code |-> 500,
          detail |-> "Failed to process PDF"]

\* except HTTPException: raise
\* except Exception as e: raise HTTPException(500, f"Failed to process PDF: ...")
OuterHandler(e) ==
    IF e.type = "HTTPException"
    THEN ErrorResponse(e)
    ELSE ErrorResponse(HTTPException(500, "Failed to process PDF: " \o Str(e)))

\* except Exception as e: raise HTTPException(500, "MongoDB upload failed: ...")
UploadHandler(e) == HTTPException(500, "MongoDB upload failed: " \o Str(e))

\* the handler of request r runs the given steps
Steps(r, steps) == trace' = [trace EXCEPT ![r] = @ \o steps]

\* collection.insert_many is entered once, however many documents it writes
InsertStep(r) ==
    IF trace[r] /= << >> /\ trace[r][Len(trace[r])] = "insert"
    THEN << >>
    ELSE << "insert" >>

\* an exception leaves the handler before the inner try is entered
FailEarly(r, e) ==
    /\ raised' = [raised EXCEPT ![r] = e]
    /\ response' = [response EXCEPT ![r] = OuterHandler(e)]
    /\ pc' = [pc EXCEPT ![r] = "done"]
    /\ UNCHANGED exc

\* an exception raised inside the inner try, outside the upload try
FailInTry(r, e) ==
    /\ raised' = [raised EXCEPT ![r] = e]
    /\ exc' = [exc EXCEPT ![r] = e]
    /\ pc' = [pc EXCEPT ![r] = "finally"]

\* an exception raised inside the upload try
FailInUpload(r, e) ==
    /\ raised' = [raised EXCEPT ![r] = e]
    /\ exc' = [exc EXCEPT ![r] = UploadHandler(e)]
    /\ pc' = [pc EXCEPT ![r] = "finally"]

\* a size test that also rejects a payload of exactly max_size
TooLargeAtLeast(size) == size >= max_size

\* `if pdf_file.size > max_size`
TooLarge(size) == size > max_size

\* a test for None alone, which lets the empty string through
TruthyNotNone(v) == v /= None

\* `if not MONGO_URI`
Truthy(v) == v /= None /\ v /= ""

\* a document keyed by its place in the batch, not by a fresh _id
DocumentKeyedByPlace(r, i, record) == [id |-> << 0, i >>, doc |-> record]

\* a document of the collection: insert_many gives each its own _id
Document(r, i, record) == [id |-> << r, i >>, doc |-> record]

(* ----------------------------- /process-pdf ----------------------------- *)
\* a validation that checks the size before the extension
process_pdf_ValidateSizeFirst(r) ==
    /\ pc[r] = "start"
    /\ \E filename \in Filenames, size \in FileSizes, doc \in PdfDocs,
          date \in Dates :
        /\ request' = [request EXCEPT ![r] =
                [kind |-> "multipart", filename |-> filename, size |-> size,
                 doc |-> doc, date |-> date]]
        /\ IF TooLarge(size)
           THEN /\ FailEarly(r, HTTPException(400,
                        "File size must be less than 10MB"))
                /\ Steps(r, << "validate", "respond" >>)
                /\ UNCHANGED pdf_content
           ELSE IF ~EndsWith(Lower(filename), DotPdf)
           THEN /\ FailEarly(r, HTTPException(400, "File must be a PDF"))
                /\ Steps(r, << "validate", "respond" >>)
                /\ UNCHANGED pdf_content
           ELSE /\ pdf_content' = [pdf_content EXCEPT ![r] =
                        [size |-> size, doc |-> doc]]
                /\ pc' = [pc EXCEPT ![r] = "stage"]
                /\ Steps(r, << "validate" >>)
                /\ UNCHANGED << raised, exc, response >>
    /\ UNCHANGED << MONGODB_URI, temp_file, temp_path, storage, records,
                    client, inserted, collection >>

\* the extension check, the size check, await pdf_file.read()
process_pdf_Validate(r) ==
    /\ pc[r] = "start"
    /\ \E filename \in Filenames, size \in FileSizes, doc \in PdfDocs,
          date \in Dates :
        /\ request' = [request EXCEPT ![r] =
                [kind |-> "multipart", filename |-> filename, size |-> size,
                 doc |-> doc, date |-> date]]
        /\ IF ~EndsWith(Lower(filename), DotPdf)
           THEN /\ FailEarly(r, HTTPException(400, "File must be a PDF"))
                /\ Steps(r, << "validate", "respond" >>)
                /\ UNCHANGED pdf_content
           ELSE IF TooLarge(size)
           THEN /\ FailEarly(r, HTTPException(400,
                        "File size must be less than 10MB"))
                /\ Steps(r, << "validate", "respond" >>)
                /\ UNCHANGED pdf_content
           ELSE /\ pdf_content' = [pdf_content EXCEPT ![r] =
                        [size |-> size, doc |-> doc]]
                /\ pc' = [pc EXCEPT ![r] = "stage"]
                /\ Steps(r, << "validate" >>)
                /\ UNCHANGED << raised, exc, response >>
    /\ UNCHANGED << MONGODB_URI, temp_file, temp_path, storage, records,
                    client, inserted, collection >>

\* a staging that takes a name without asking whether it is in use
process_pdf_StageAnyName(r) ==
    /\ pc[r] = "stage"
    /\ request[r].kind = "multipart"
    /\ \/ /\ FailEarly(r, Exception("OSError: cannot create temporary file"))
          /\ Steps(r, << "stage", "respond" >>)
          /\ UNCHANGED << storage, temp_file, temp_path >>
       \/ \E p \in TempPaths :
            /\ temp_file' = [temp_file EXCEPT ![r] = p]
            /\ \/ /\ storage' = [storage EXCEPT ![p] = pdf_content[r]]
                  /\ temp_path' = [temp_path EXCEPT ![r] = p]
                  /\ pc' = [pc EXCEPT ![r] = "parse"]
                  /\ Steps(r, << "stage" >>)
                  /\ UNCHANGED << raised, exc, response >>
               \/ /\ storage' = [storage EXCEPT ![p] = Truncated]
                  /\ FailEarly(r, Exception("OSError: No space left on device"))
                  /\ Steps(r, << "stage", "respond" >>)
                  /\ UNCHANGED temp_path
    /\ UNCHANGED << MONGODB_URI, request, pdf_content, records, client,
                    inserted, collection >>

\* the temporary file is created, then the bytes are written into it
process_pdf_Stage(r) ==
    /\ pc[r] = "stage"
    /\ request[r].kind = "multipart"
    /\ \/ /\ FailEarly(r, Exception("OSError: cannot create temporary file"))
          /\ Steps(r, << "stage", "respond" >>)
          /\ UNCHANGED << storage, temp_file, temp_path >>
       \/ \E p \in TempPaths :
            /\ storage[p] = Absent
            /\ temp_file' = [temp_file EXCEPT ![r] = p]
            /\ \/ /\ storage' = [storage EXCEPT ![p] = pdf_content[r]]
                  /\ temp_path' = [temp_path EXCEPT ![r] = p]
                  /\ pc' = [pc EXCEPT ![r] = "parse"]
                  /\ Steps(r, << "stage" >>)
                  /\ UNCHANGED << raised, exc, response >>
               \/ /\ storage' = [storage EXCEPT ![p] = Truncated]
                  /\ FailEarly(r, Exception("OSError: No space left on device"))
                  /\ Steps(r, << "stage", "respond" >>)
                  /\ UNCHANGED temp_path
    /\ UNCHANGED << MONGODB_URI, request, pdf_content, records, client,
                    inserted, collection >>

\* parser.process_pdf_to_dataframe(temp_path), df.empty, df['date'], to_dict
process_pdf_Parse(r) ==
    /\ pc[r] = "parse"
    /\ request[r].kind = "multipart"
    /\ LET doc == storage[temp_path[r]].doc
           df == process_pdf_to_dataframe(doc)
       IN  IF ParserRaises(doc)
           THEN /\ FailInTry(r, Exception("parser: cannot read document"))
                /\ Steps(r, << "parse" >>)
                /\ UNCHANGED records
           ELSE IF Empty(df)
           THEN /\ FailInTry(r, HTTPException(400,
                        "No data could be extracted from the PDF"))
                /\ Steps(r, << "parse" >>)
                /\ UNCHANGED records
           ELSE /\ records' = [records EXCEPT ![r] =
                        SetDateColumn(df, request[r].date)]
                /\ pc' = [pc EXCEPT ![r] = "upload"]
                /\ Steps(r, << "parse", "stamp" >>)
                /\ UNCHANGED << raised, exc >>
    /\ UNCHANGED << MONGODB_URI, request, pdf_content, temp_file, temp_path,
                    storage, client, inserted, collection, response >>

\* MONGO_URI = os.environ.get('MONGODB_URI'); client = MongoClient(MONGO_URI)
process_pdf_Connect(r) ==
    /\ pc[r] = "upload"
    /\ request[r].kind = "multipart"
    /\ IF ~Truthy(MONGODB_URI)
       THEN /\ FailInUpload(r, HTTPException(500,
                    "MONGODB_URI environment variable not set"))
            /\ Steps(r, << "config" >>)
            /\ UNCHANGED client
       ELSE /\ client' = [client EXCEPT ![r] = "open"]
            /\ pc' = [pc EXCEPT ![r] = "ping"]
            /\ Steps(r, << "config", "connect" >>)
            /\ UNCHANGED << raised, exc >>
    /\ UNCHANGED << MONGODB_URI, request, pdf_content, temp_file, temp_path,
                    storage, records, inserted, collection, response >>

\* a ping that is tried again when it fails
process_pdf_PingRetrying(r) ==
    /\ pc[r] = "ping"
    /\ request[r].kind = "multipart"
    /\ Steps(r, << "ping" >>)
    /\ \/ /\ pc' = [pc EXCEPT ![r] = "insert"]
          /\ UNCHANGED << raised, exc >>
       \/ UNCHANGED << pc, raised, exc >>
    /\ UNCHANGED << MONGODB_URI, request, pdf_content, temp_file, temp_path,
                    storage, records, client, inserted, collection, response >>

\* client.admin.command('ping')
process_pdf_Ping(r) ==
    /\ pc[r] = "ping"
    /\ request[r].kind = "multipart"
    /\ Steps(r, << "ping" >>)
    /\ \/ /\ pc' = [pc EXCEPT ![r] = "insert"]
          /\ UNCHANGED << raised, exc >>
       \/ FailInUpload(r, Exception("ServerSelectionTimeoutError"))
    /\ UNCHANGED << MONGODB_URI, request, pdf_content, temp_file, temp_path,
                    storage, records, client, inserted, collection, response >>

\* an insert whose failure is logged and swallowed
process_pdf_InsertSwallowingFailure(r) ==
    /\ pc[r] = "insert"
    /\ request[r].kind = "multipart"
    /\ IF records[r] = << >>
       THEN /\ pc' = [pc EXCEPT ![r] = "close"]
            /\ UNCHANGED << inserted, collection, raised, exc, trace >>
       ELSE \/ /\ inserted[r] < Len(records[r])
               /\ collection' = collection \cup
                      {Document(r, inserted[r] + 1,
                                records[r][inserted[r] + 1])}
               /\ inserted' = [inserted EXCEPT ![r] = @ + 1]
               /\ Steps(r, InsertStep(r))
               /\ UNCHANGED << pc, raised, exc >>
            \/ /\ inserted[r] = Len(records[r])
               /\ pc' = [pc EXCEPT ![r] = "close"]
               /\ UNCHANGED << inserted, collection, raised, exc, trace >>
            \/ /\ raised' = [raised EXCEPT ![r] = Exception("BulkWriteError")]
               /\ pc' = [pc EXCEPT ![r] = "close"]
               /\ Steps(r, InsertStep(r))
               /\ UNCHANGED << inserted, collection, exc >>
    /\ UNCHANGED << MONGODB_URI, request, pdf_content, temp_file, temp_path,
                    storage, records, client, response >>

\* if records: collection.insert_many(records), one document at a time
process_pdf_Insert(r) ==
    /\ pc[r] = "insert"
    /\ request[r].kind = "multipart"
    /\ IF records[r] = << >>
       THEN /\ pc' = [pc EXCEPT ![r] = "close"]
            /\ UNCHANGED << inserted, collection, raised, exc, trace >>
       ELSE \/ /\ inserted[r] < Len(records[r])
               /\ collection' = collection \cup
                      {Document(r, inserted[r] + 1,
                                records[r][inserted[r] + 1])}
               /\ inserted' = [inserted EXCEPT ![r] = @ + 1]
               /\ Steps(r, InsertStep(r))
               /\ UNCHANGED << pc, raised, exc >>
            \/ /\ inserted[r] = Len(records[r])
               /\ pc' = [pc EXCEPT ![r] = "close"]
               /\ UNCHANGED << inserted, collection, raised, exc, trace >>
            \/ /\ FailInUpload(r, Exception("BulkWriteError"))
               /\ Steps(r, InsertStep(r))
               /\ UNCHANGED << inserted, collection >>
    /\ UNCHANGED << MONGODB_URI, request, pdf_content, temp_file, temp_path,
                    storage, records, client, response >>

\* client.close()
process_pdf_Close(r) ==
    /\ pc[r] = "close"
    /\ request[r].kind = "multipart"
    /\ client' = [client EXCEPT ![r] = "closed"]
    /\ pc' = [pc EXCEPT ![r] = "finally"]
    /\ Steps(r, << "close" >>)
    /\ UNCHANGED << MONGODB_URI, request, pdf_content, temp_file, temp_path,
                    storage, records, inserted, collection, raised, exc, response >>

\* a cleanup whose failure escapes the finally block
process_pdf_FinallyRaising(r) ==
    /\ pc[r] = "finally"
    /\ request[r].kind = "multipart"
    /\ \/ /\ storage' = [storage EXCEPT ![temp_path[r]] = Absent]
          /\ response' = [response EXCEPT ![r] =
                IF exc[r] = NoException
                THEN PDFProcessResponse(Len(records[r]))
                ELSE OuterHandler(exc[r])]
       \/ /\ UNCHANGED storage
          /\ response' = [response EXCEPT ![r] =
                OuterHandler(Exception("OSError: cannot unlink"))]
    /\ pc' = [pc EXCEPT ![r] = "done"]
    /\ Steps(r, << "cleanup", "respond" >>)
    /\ UNCHANGED << MONGODB_URI, request, pdf_content, temp_file, temp_path,
                    records, client, inserted, collection, raised, exc >>

\* finally: os.unlink(temp_path), its failure swallowed; then the response
process_pdf_Finally(r) ==
    /\ pc[r] = "finally"
    /\ request[r].kind = "multipart"
    /\ \/ storage' = [storage EXCEPT ![temp_path[r]] = Absent]
       \/ UNCHANGED storage
    /\ response' = [response EXCEPT ![r] =
            IF exc[r] = NoException
            THEN PDFProcessResponse(Len(records[r]))
            ELSE OuterHandler(exc[r])]
    /\ pc' = [pc EXCEPT ![r] = "done"]
    /\ Steps(r, << "cleanup", "respond" >>)
    /\ UNCHANGED << MONGODB_URI, request, pdf_content, temp_file, temp_path,
                    records, client, inserted, collection, raised, exc >>

(* ------------------------- /process-pdf-base64 -------------------------- *)
\* pdf_data = base64.b64decode(request.pdf_data)
process_pdf_base64_Decode(r) ==
    /\ pc[r] = "start"
    /\ \E text \in Base64Texts, doc \in PdfDocs, date \in Dates :
        /\ request' = [request EXCEPT ![r] =
                [kind |-> "base64", pdf_data |-> text, doc |-> doc,
                 date |-> date]]
        /\ IF B64Raises(text)
           THEN /\ FailEarly(r, HTTPException(400,
                        "Invalid base64 data: binascii.Error"))
                /\ Steps(r, << "validate", "respond" >>)
                /\ UNCHANGED pdf_content
           ELSE /\ pdf_content' = [pdf_content EXCEPT ![r] =
                        [size |-> B64DecodedSize(text), doc |-> doc]]
                /\ pc' = [pc EXCEPT ![r] = "stage"]
                /\ Steps(r, << "validate" >>)
                /\ UNCHANGED << raised, exc, response >>
    /\ UNCHANGED << MONGODB_URI, temp_file, temp_path, storage, records,
                    client, inserted, collection >>

\* the temporary file is created, then the bytes are written into it
process_pdf_base64_Stage(r) ==
    /\ pc[r] = "stage"
    /\ request[r].kind = "base64"
    /\ \/ /\ FailEarly(r, Exception("OSError: cannot create temporary file"))
          /\ Steps(r, << "stage", "respond" >>)
          /\ UNCHANGED << storage, temp_file, temp_path >>
       \/ \E p \in TempPaths :
            /\ storage[p] = Absent
            /\ temp_file' = [temp_file EXCEPT ![r] = p]
            /\ \/ /\ storage' = [storage EXCEPT ![p] = pdf_content[r]]
                  /\ temp_path' = [temp_path EXCEPT ![r] = p]
                  /\ pc' = [pc EXCEPT ![r] = "parse"]
                  /\ Steps(r, << "stage" >>)
                  /\ UNCHANGED << raised, exc, response >>
               \/ /\ storage' = [storage EXCEPT ![p] = Truncated]
                  /\ FailEarly(r, Exception("OSError: No space left on device"))
                  /\ Steps(r, << "stage", "respond" >>)
                  /\ UNCHANGED temp_path
    /\ UNCHANGED << MONGODB_URI, request, pdf_content, records, client,
                    inserted, collection >>

\* a base64 path that stores the parser's rows as they are, without the date
process_pdf_base64_ParseUnstamped(r) ==
    /\ pc[r] = "parse"
    /\ request[r].kind = "base64"
    /\ LET doc == storage[temp_path[r]].doc
           df == process_pdf_to_dataframe(doc)
       IN  IF ParserRaises(doc)
           THEN /\ FailInTry(r, Exception("parser: cannot read document"))
                /\ Steps(r, << "parse" >>)
                /\ UNCHANGED records
           ELSE IF Empty(df)
           THEN /\ FailInTry(r, HTTPException(400,
                        "No data could be extracted from the PDF"))
                /\ Steps(r, << "parse" >>)
                /\ UNCHANGED records
           ELSE /\ records' = [records EXCEPT ![r] = df]
                /\ pc' = [pc EXCEPT ![r] = "upload"]
                /\ Steps(r, << "parse", "stamp" >>)
                /\ UNCHANGED << raised, exc >>
    /\ UNCHANGED << MONGODB_URI, request, pdf_content, temp_file, temp_path,
                    storage, client, inserted, collection, response >>

\* parser.process_pdf_to_dataframe(temp_path), df.empty, df['date'], to_dict
process_pdf_base64_Parse(r) ==
    /\ pc[r] = "parse"
    /\ request[r].kind = "base64"
    /\ LET doc == storage[temp_path[r]].doc
           df == process_pdf_to_dataframe(doc)
       IN  IF ParserRaises(doc)
           THEN /\ FailInTry(r, Exception("parser: cannot read document"))
                /\ Steps(r, << "parse" >>)
                /\ UNCHANGED records
           ELSE IF Empty(df)
           THEN /\ FailInTry(r, HTTPException(400,
                        "No data could be extracted from the PDF"))
                /\ Steps(r, << "parse" >>)
                /\ UNCHANGED records
           ELSE /\ records' = [records EXCEPT ![r] =
                        SetDateColumn(df, request[r].date)]
                /\ pc' = [pc EXCEPT ![r] = "upload"]
                /\ Steps(r, << "parse", "stamp" >>)
                /\ UNCHANGED << raised, exc >>
    /\ UNCHANGED << MONGODB_URI, request, pdf_content, temp_file, temp_path,
                    storage, client, inserted, collection, response >>

\* MONGO_URI = os.environ.get('MONGODB_URI'); client = MongoClient(MONGO_URI)
process_pdf_base64_Connect(r) ==
    /\ pc[r] = "upload"
    /\ request[r].kind = "base64"
    /\ IF ~Truthy(MONGODB_URI)
       THEN /\ FailInUpload(r, HTTPException(500,
                    "MONGODB_URI environment variable not set"))
            /\ Steps(r, << "config" >>)
            /\ UNCHANGED client
       ELSE /\ client' = [client EXCEPT ![r] = "open"]
            /\ pc' = [pc EXCEPT ![r] = "ping"]
            /\ Steps(r, << "config", "connect" >>)
            /\ UNCHANGED << raised, exc >>
    /\ UNCHANGED << MONGODB_URI, request, pdf_content, temp_file, temp_path,
                    storage, records, inserted, collection, response >>

\* client.admin.command('ping')
process_pdf_base64_Ping(r) ==
    /\ pc[r] = "ping"
    /\ request[r].kind = "base64"
    /\ Steps(r, << "ping" >>)
    /\ \/ /\ pc' = [pc EXCEPT ![r] = "insert"]
          /\ UNCHANGED << raised, exc >>
       \/ FailInUpload(r, Exception("ServerSelectionTimeoutError"))
    /\ UNCHANGED << MONGODB_URI, request, pdf_content, temp_file, temp_path,
                    storage, records, client, inserted, collection, response >>

\* if records: collection.insert_many(records), one document at a time
process_pdf_base64_Insert(r) ==
    /\ pc[r] = "insert"
    /\ request[r].kind = "base64"
    /\ IF records[r] = << >>
       THEN /\ pc' = [pc EXCEPT ![r] = "close"]
            /\ UNCHANGED << inserted, collection, raised, exc, trace >>
       ELSE \/ /\ inserted[r] < Len(records[r])
               /\ collection' = collection \cup
                      {Document(r, inserted[r] + 1,
                                records[r][inserted[r] + 1])}
               /\ inserted' = [inserted EXCEPT ![r] = @ + 1]
               /\ Steps(r, InsertStep(r))
               /\ UNCHANGED << pc, raised, exc >>
            \/ /\ inserted[r] = Len(records[r])
               /\ pc' = [pc EXCEPT ![r] = "close"]
               /\ UNCHANGED << inserted, collection, raised, exc, trace >>
            \/ /\ FailInUpload(r, Exception("BulkWriteError"))
               /\ Steps(r, InsertStep(r))
               /\ UNCHANGED << inserted, collection >>
    /\ UNCHANGED << MONGODB_URI, request, pdf_content, temp_file, temp_path,
                    storage, records, client, response >>

\* client.close()
process_pdf_base64_Close(r) ==
    /\ pc[r] = "close"
    /\ request[r].kind = "base64"
    /\ client' = [client EXCEPT ![r] = "closed"]
    /\ pc' = [pc EXCEPT ![r] = "finally"]
    /\ Steps(r, << "close" >>)
    /\ UNCHANGED << MONGODB_URI, request, pdf_content, temp_file, temp_path,
                    storage, records, inserted, collection, raised, exc, response >>

\* finally: os.unlink(temp_path), its failure swallowed; then the response
process_pdf_base64_Finally(r) ==
    /\ pc[r] = "finally"
    /\ request[r].kind = "base64"
    /\ \/ storage' = [storage EXCEPT ![temp_path[r]] = Absent]
       \/ UNCHANGED storage
    /\ response' = [response EXCEPT ![r] =
            IF exc[r] = NoException
            THEN PDFProcessResponse(Len(records[r]))
            ELSE OuterHandler(exc[r])]
    /\ pc' = [pc EXCEPT ![r] = "done"]
    /\ Steps(r, << "cleanup", "respond" >>)
    /\ UNCHANGED << MONGODB_URI, request, pdf_content, temp_file, temp_path,
                    records, client, inserted, collection, raised, exc >>

(* --------------------------- specification ------------------------------ *)
Next ==
    \E r \in Requests :
        \/ process_pdf_Validate(r)
        \/ process_pdf_Stage(r)
        \/ process_pdf_Parse(r)
        \/ process_pdf_Connect(r)
        \/ process_pdf_Ping(r)
        \/ process_pdf_Insert(r)
        \/ process_pdf_Close(r)
        \/ process_pdf_Finally(r)
        \/ process_pdf_base64_Decode(r)
        \/ process_pdf_base64_Stage(r)
        \/ process_pdf_base64_Parse(r)
        \/ process_pdf_base64_Connect(r)
        \/ process_pdf_base64_Ping(r)
        \/ process_pdf_base64_Insert(r)
        \/ process_pdf_base64_Close(r)
        \/ process_pdf_base64_Finally(r)

Spec == Init /\ [][Next]_vars

(* ------------------------------ properties ------------------------------ *)
Done(r) == pc[r] = "done"

\* the documents of the collection a request inserted
DocsOf(r) == {d \in collection : d.id[1] = r}

\* the rows the parser extracts from what a request carries
Parsed(r) == process_pdf_to_dataframe(request[r].doc)

\* C1: a success response reports exactly the N > 0 records the parser
\* extracted, and the collection holds exactly N documents of that request,
\* one per parsed record with its columns kept, each with 'date' equal to
\* the request's date, also where the parsed row already had a 'date'.
C1_SuccessStoresEveryRecordStamped ==
    \A r \in Requests :
        response[r].type = "ok" =>
            /\ Len(Parsed(r)) > 0
            /\ response[r].records_count = Len(Parsed(r))
            /\ Cardinality(DocsOf(r)) = Len(Parsed(r))
            /\ \A i \in 1..Len(Parsed(r)) :
                \E d \in DocsOf(r) :
                    /\ d.id = << r, i >>
                    /\ DOMAIN d.doc = DOMAIN Parsed(r)[i] \cup {"date"}
                    /\ d.doc.date = request[r].date
                    /\ \A c \in DOMAIN Parsed(r)[i] \ {"date"} :
                            d.doc[c] = Parsed(r)[i][c]

\* a request succeeded on a document whose rows already had a 'date' column
C1_Witness ==
    \E r \in Requests :
        /\ response[r].type = "ok"
        /\ "date" \in DOMAIN Parsed(r)[1]
        /\ Cardinality(DocsOf(r)) = MaxRecords

\* C2: once a request has completed, the temporary file it created is gone,
\* whichever way the request ended.
C2_NoArtifactAfterCompletion ==
    \A r \in Requests :
        (/\ Done(r)
         /\ temp_file[r] /= 0
         /\ \A q \in Requests \ {r} : temp_file[q] /= temp_file[r])
            => storage[temp_file[r]] = Absent

\* C3: a request that has responded has no open MongoClient.
C3_ConnectionClosedBeforeResponse ==
    \A r \in Requests : Done(r) => client[r] /= "open"

\* C4: a request in which an HTTPException was raised answers with that
\* exception's status and detail, unchanged.
C4_DomainErrorReportedUnchanged ==
    \A r \in Requests :
        (Done(r) /\ raised[r].type = "HTTPException") =>
            /\ response[r].status_code = raised[r].status_code
            /\ response[r].detail = raised[r].detail

\* the persistence step: the handler has built its records
ReachedPersistence(r) == records[r] /= << >>

\* C5: with MONGODB_URI unset or empty no request succeeds, creates a client,
\* pings or inserts, the collection stays empty, and a request that reached
\* the persistence step answers 500.
C5_NoConfigurationNoPersistence ==
    (MONGODB_URI = None \/ MONGODB_URI = "") =>
        /\ collection = {}
        /\ \A r \in Requests :
            /\ client[r] = "none"
            /\ inserted[r] = 0
            /\ pc[r] \notin {"ping", "insert", "close"}
            /\ response[r].type /= "ok"
            /\ (Done(r) /\ ReachedPersistence(r)) =>
                    response[r].status_code = 500

\* with MONGODB_URI empty, a request got as far as persistence and answered
C5_Witness ==
    /\ MONGODB_URI = ""
    /\ \E r \in Requests :
        Done(r) /\ ReachedPersistence(r) /\ response[r].status_code = 500

\* the parser has run on the request's staged file
Extracted(r) == temp_path[r] /= 0 /\ pc[r] /= "parse"

NoDataExtracted == HTTPException(400, "No data could be extracted from the PDF")

\* C6: a request whose extraction yields 0 records fails with 400 "No data
\* could be extracted", creates no client and inserts nothing, whatever
\* MONGODB_URI holds.
C6_EmptyExtractionFailsWithoutPersistence ==
    \A r \in Requests :
        (/\ Extracted(r)
         /\ request[r].doc /= "corrupt"
         /\ Len(Parsed(r)) = 0) =>
            /\ pc[r] \in {"finally", "done"}
            /\ raised[r] = NoDataExtracted
            /\ client[r] = "none"
            /\ inserted[r] = 0
            /\ DocsOf(r) = {}
            /\ Done(r) => /\ response[r].type = "error"
                          /\ response[r].status_code = 400
                          /\ response[r].detail = NoDataExtracted.detail

\* an empty extraction answered 400 although MONGODB_URI was set
C6_Witness ==
    /\ MONGODB_URI = "mongodb://db"
    /\ \E r \in Requests :
        /\ Done(r)
        /\ temp_path[r] /= 0
        /\ request[r].doc = "0"
        /\ response[r].status_code = 400

\* the ping or the bulk insert raised
PersistenceFailed(r) ==
    /\ raised[r].type = "Exception"
    /\ raised[r].msg \in {"ServerSelectionTimeoutError", "BulkWriteError"}

\* C7: a failed ping or insert ends the request with 500 "MongoDB upload
\* failed" and never with success; success is answered only with the whole
\* batch in the collection; what a failed insert wrote stays (no rollback)
\* and nothing is inserted after the failure.
C7_PersistenceFailureFailsRequest ==
    \A r \in Requests :
        /\ Cardinality(DocsOf(r)) = inserted[r]
        /\ inserted[r] <= Len(records[r])
        /\ PersistenceFailed(r) =>
            /\ pc[r] \in {"finally", "done"}
            /\ response[r].type /= "ok"
            /\ Done(r) =>
                /\ response[r].status_code = 500
                /\ response[r].detail =
                        "MongoDB upload failed: " \o raised[r].msg
        /\ response[r].type = "ok" =>
            /\ raised[r] = NoException
            /\ inserted[r] = Len(records[r])
            /\ \A i \in 1..Len(records[r]) :
                    [id |-> << r, i >>, doc |-> records[r][i]] \in collection

\* a bulk insert failed part-way: the request answered 500, the part stays
C7_Witness ==
    \E r \in Requests :
        /\ Done(r)
        /\ raised[r] = Exception("BulkWriteError")
        /\ inserted[r] > 0
        /\ inserted[r] < Len(records[r])
        /\ response[r].status_code = 500

\* the file name ends in ".pdf", whatever the case of its letters
EndsInDotPdf(f) ==
    /\ Len(f) >= 4
    /\ f[Len(f) - 3] = "."
    /\ f[Len(f) - 2] \in {"p", "P"}
    /\ f[Len(f) - 1] \in {"d", "D"}
    /\ f[Len(f)] \in {"f", "F"}

\* C8: a multipart request whose file name does not end in ".pdf" (in any
\* case) has answered 400 "File must be a PDF" without creating a temporary
\* file, running the parser, creating a client or inserting.
C8_BadExtensionRejectedBeforeStaging ==
    \A r \in Requests :
        (request[r].kind = "multipart" /\ ~EndsInDotPdf(request[r].filename))
            => /\ Done(r)
               /\ response[r].status_code = 400
               /\ response[r].detail = "File must be a PDF"
               /\ pdf_content[r] = NoContent
               /\ temp_file[r] = 0
               /\ temp_path[r] = 0
               /\ records[r] = << >>
               /\ client[r] = "none"
               /\ inserted[r] = 0
               /\ DocsOf(r) = {}

\* a file named "pdf", without the dot, was rejected
C8_Witness ==
    \E r \in Requests :
        /\ request[r].kind = "multipart"
        /\ request[r].filename = << "p", "d", "f" >>
        /\ Done(r)
        /\ response[r].status_code = 400

PayloadTooLarge(r) ==
    /\ response[r].type = "error"
    /\ response[r].status_code = 400
    /\ response[r].detail = "File size must be less than 10MB"

\* the base64 path never applies the size check: a decodable text passes the
\* gate with all its bytes
Base64NeverTooLarge ==
    \A r \in Requests :
        (request[r].kind = "base64" /\ request[r].pdf_data.ascii
            /\ request[r].pdf_data.ndata \in {13981014, 13981015}
            /\ request[r].pdf_data.npad >= 1) =>
            /\ ~PayloadTooLarge(r)
            /\ pdf_content[r].size = request[r].pdf_data.ndata - 3495254
            /\ pdf_content[r].size >= 10485760
            /\ pdf_content[r].doc = request[r].doc

\* C9 as stated: a multipart request answers PayloadTooLarge exactly when its
\* size exceeds 10 MiB, and the base64 path never does.
C9_PayloadTooLargeExactlyAbove10MiB ==
    /\ \A r \in Requests :
        request[r].kind = "multipart" =>
            (PayloadTooLarge(r) <=> request[r].size > 10485760)
    /\ Base64NeverTooLarge

\* C9 amended: a multipart request whose file name ends in ".pdf" answers
\* PayloadTooLarge, before staging, exactly when its size exceeds 10 MiB
\* (one of exactly 10 MiB passes the gate); the base64 path never does.
C9_PayloadTooLargeForPdfNamesAbove10MiB ==
    /\ \A r \in Requests :
        (request[r].kind = "multipart" /\ EndsInDotPdf(request[r].filename))
            => /\ PayloadTooLarge(r) <=> request[r].size > 10485760
               /\ request[r].size > 10485760 =>
                    Done(r) /\ pdf_content[r] = NoContent /\ temp_file[r] = 0
               /\ request[r].size <= 10485760 =>
                    pdf_content[r] =
                        [size |-> request[r].size, doc |-> request[r].doc]
    /\ Base64NeverTooLarge

\* a multipart file of exactly 10 MiB was staged while a base64 payload of
\* one byte more was staged and parsed
C9_Witness ==
    \E r, q \in Requests :
        /\ request[r].kind = "multipart"
        /\ request[r].size = 10485760
        /\ temp_path[r] /= 0
        /\ request[q].kind = "base64"
        /\ pdf_content[q].size = 10485761
        /\ Extracted(q)

RECURSIVE SumOver(_, _)
SumOver(S, f) ==
    IF S = {} THEN 0
    ELSE LET x == CHOOSE y \in S : TRUE
         IN  f[x] + SumOver(S \ {x}, f)

Succeeded == {r \in Requests : response[r].type = "ok"}

\* C10 as stated: once every request has answered, the collection holds as
\* many documents as the successful requests report in records_count.
C10_CountIsSumOfSuccessfulRecordCounts ==
    (\A r \in Requests : Done(r)) =>
        Cardinality(collection) =
            SumOver(Succeeded, [r \in Requests |-> response[r].records_count])

\* C10 amended: requests never deduplicate: the collection holds, for every
\* request, each document it wrote, so its size is the sum of records_count
\* over the successful requests plus what failed inserts wrote part-way.
C10_CountIsSumOfWrittenDocuments ==
    /\ Cardinality(collection) =
            SumOver(Requests,
                    [r \in Requests |->
                        IF response[r].type = "ok"
                        THEN response[r].records_count
                        ELSE inserted[r]])
    /\ \A r \in Succeeded : Cardinality(DocsOf(r)) = response[r].records_count

\* two requests with the same bytes and the same date both succeeded and the
\* collection holds both batches, duplicates included
C10_Witness ==
    \E r, q \in Requests :
        /\ r /= q
        /\ response[r].type = "ok"
        /\ response[q].type = "ok"
        /\ request[r].date = request[q].date
        /\ request[r].doc = request[q].doc
        /\ Cardinality(collection) =
                response[r].records_count + response[q].records_count
        /\ \E d \in DocsOf(r), e \in DocsOf(q) : d.doc = e.doc

\* the request's staged file is still needed: from the parse to the cleanup
InUse(r) ==
    /\ temp_path[r] /= 0
    /\ pc[r] \in {"parse", "upload", "ping", "insert", "close", "finally"}

Ran(r, step) == \E i \in 1..Len(trace[r]) : trace[r][i] = step

\* C11: requests in flight hold distinct temporary files, and while a request
\* still needs its file the file is there with the bytes that request staged
\* (so its parser reads them and no other request's cleanup has removed
\* it); a request's MongoClient is opened and closed by that request's own
\* steps only.
C11_OwnArtifactOwnConnection ==
    /\ \A r \in Requests :
        InUse(r) => storage[temp_path[r]] = pdf_content[r]
    /\ \A r, q \in Requests :
        (r /= q /\ InUse(r) /\ InUse(q)) => temp_path[r] /= temp_path[q]
    /\ \A r \in Requests :
        /\ client[r] /= "none" <=> Ran(r, "connect")
        /\ client[r] = "closed" <=> Ran(r, "close")

\* one request is about to clean up, its client closed, while another, with
\* other bytes, is inserting over its own open client
C11_Witness ==
    \E r, q \in Requests :
        /\ pc[r] = "finally"
        /\ client[r] = "closed"
        /\ pc[q] = "insert"
        /\ client[q] = "open"
        /\ pdf_content[r] /= pdf_content[q]
        /\ temp_path[r] /= temp_path[q]

\* how many times the handler ran the given step
RECURSIVE Count(_, _)
Count(t, step) ==
    IF t = << >> THEN 0
    ELSE (IF Head(t) = step THEN 1 ELSE 0) + Count(Tail(t), step)

\* the status the request's own outcome calls for
OutcomeStatus(r) ==
    IF raised[r] = NoException THEN 200
    ELSE IF raised[r].type = "HTTPException" THEN raised[r].status_code
    ELSE 500

\* C12: a request that entered the parse step attempts the deletion of its
\* staged file exactly once, as its last step before responding, on every
\* exit path; before that, through parse and persistence, no deletion is
\* attempted; and whether or not the deletion worked, the response is the
\* one the request's outcome calls for.
C12_CleanupOnceAtTheEndAndSwallowed ==
    \A r \in Requests :
        /\ Count(trace[r], "cleanup") <= 1
        /\ temp_path[r] = 0 => Count(trace[r], "cleanup") = 0
        /\ InUse(r) => Count(trace[r], "cleanup") = 0
        /\ (Done(r) /\ temp_path[r] /= 0) =>
            /\ Count(trace[r], "cleanup") = 1
            /\ Len(trace[r]) >= 2
            /\ trace[r][Len(trace[r]) - 1] = "cleanup"
            /\ trace[r][Len(trace[r])] = "respond"
            /\ response[r].status_code = OutcomeStatus(r)
            /\ response[r].type = "ok" <=> raised[r] = NoException
            /\ response[r].type = "ok" =>
                    response[r].records_count = Len(records[r])
            /\ (response[r].type = "error" /\ response[r].status_code = 400)
                    => response[r].detail = raised[r].detail

\* a request whose deletion failed, the file still there, answered success
C12_Witness ==
    \E r \in Requests :
        /\ Done(r)
        /\ temp_path[r] /= 0
        /\ storage[temp_path[r]] = pdf_content[r]
        /\ response[r].type = "ok"

\* the steps of a request in the order the handlers write them
Pipeline ==
    << "validate", "stage", "parse", "stamp", "config", "connect", "ping",
       "insert", "close" >>

Rank(step) ==
    IF step = "cleanup" THEN Len(Pipeline) + 1
    ELSE IF step = "respond" THEN Len(Pipeline) + 2
    ELSE CHOOSE i \in 1..Len(Pipeline) : Pipeline[i] = step

IsCleanupOrRespond(step) == step \in {"cleanup", "respond"}
IsPipelineStep(step) == ~IsCleanupOrRespond(step)

\* C13: a request runs validate, stage, parse, stamp, persist (config,
\* connect, ping, insert, close) in that order, each at most once and none
\* skipped; once a step has raised only cleanup and the response follow; a
\* request has responded exactly when it is done, exactly once, and a success
\* has run every step.
C13_LinearPipelineOneResponse ==
    \A r \in Requests :
        /\ \A i, j \in 1..Len(trace[r]) :
                i < j => Rank(trace[r][i]) < Rank(trace[r][j])
        /\ LET core == SelectSeq(trace[r], IsPipelineStep)
           IN  /\ Len(core) <= Len(Pipeline)
               /\ core = SubSeq(Pipeline, 1, Len(core))
               /\ response[r].type = "ok" => core = Pipeline
        /\ raised[r] /= NoException => pc[r] \in {"finally", "done"}
        /\ Done(r) <=> Count(trace[r], "respond") = 1
        /\ Done(r) <=> response[r] /= NoResponse
        /\ Count(trace[r], "respond") <= 1
        /\ Ran(r, "cleanup") => Ran(r, "parse")

\* one request ran the whole pipeline and succeeded, another stopped at a
\* failed ping and went straight to cleanup and its response
C13_Witness ==
    \E r, q \in Requests :
        /\ response[r].type = "ok"
        /\ trace[r] = Pipeline \o << "cleanup", "respond" >>
        /\ Done(q)
        /\ trace[q] = SubSeq(Pipeline, 1, 7) \o << "cleanup", "respond" >>

\* the request raised a fault that no handler classifies: neither an
\* HTTPException nor an exception of the upload block
UnclassifiedFault(r) ==
    /\ raised[r].type = "Exception"
    /\ raised[r].msg \notin {"ServerSelectionTimeoutError", "BulkWriteError"}

\* the request answers 500 with the raw message, having touched neither the
\* collection nor a client
AnswersInternalError(r) ==
    /\ response[r].type = "error"
    /\ response[r].status_code = 500
    /\ response[r].detail = "Failed to process PDF: " \o raised[r].msg
    /\ DocsOf(r) = {}
    /\ inserted[r] = 0
    /\ client[r] = "none"
    /\ ~Ran(r, "config")

\* C14 as stated: a request that ended on an unclassified fault answers 500
\* with the raw message, has not touched collection or client, and its
\* staged file has been deleted.
C14_InternalErrorArtifactDeleted ==
    \A r \in Requests :
        (Done(r) /\ UnclassifiedFault(r)) =>
            /\ AnswersInternalError(r)
            /\ (/\ temp_path[r] /= 0
                /\ \A q \in Requests \ {r} : temp_file[q] /= temp_path[r])
                    => storage[temp_path[r]] = Absent

\* C14 amended: a request that ended on an unclassified fault answers 500
\* with the raw message and has not touched collection or client; if it had
\* staged its file, the deletion of that file has been attempted exactly
\* once, right after the faulting parse.
C14_InternalErrorCleanupAttempted ==
    \A r \in Requests :
        (Done(r) /\ UnclassifiedFault(r)) =>
            /\ AnswersInternalError(r)
            /\ temp_path[r] /= 0 =>
                /\ Count(trace[r], "cleanup") = 1
                /\ trace[r] = << "validate", "stage", "parse", "cleanup",
                                 "respond" >>

\* the parser raised, the deletion failed and left the file, the request
\* answered 500 with the parser's message
C14_Witness ==
    \E r \in Requests :
        /\ Done(r)
        /\ raised[r] = Exception("parser: cannot read document")
        /\ storage[temp_path[r]] = pdf_content[r]
        /\ response[r].detail =
                "Failed to process PDF: parser: cannot read document"

\* the base64 text cannot be decoded
Undecodable(t) == ~t.ascii \/ t.ndata \in {5, 6}

\* C15: a request reports the error of its earliest failing step: a bad
\* extension wins over an oversize payload; MONGODB_URI is read only once
\* the records are built, so with it unset or empty an invalid upload or
\* base64 text and an empty extraction still answer their own 400; and the
\* status answered is always that of the first error raised.
C15_EarliestFailingStepReported ==
    \A r \in Requests :
        /\ (request[r].kind = "multipart"
                /\ ~EndsInDotPdf(request[r].filename)) =>
            /\ response[r].status_code = 400
            /\ response[r].detail = "File must be a PDF"
        /\ (request[r].kind = "multipart" /\ EndsInDotPdf(request[r].filename)
                /\ request[r].size > 10485760) =>
            /\ response[r].status_code = 400
            /\ response[r].detail = "File size must be less than 10MB"
        /\ (request[r].kind = "base64" /\ Undecodable(request[r].pdf_data)) =>
            /\ response[r].status_code = 400
            /\ response[r].detail = "Invalid base64 data: binascii.Error"
        /\ (Done(r) /\ Extracted(r) /\ request[r].doc = "0") =>
            /\ response[r].status_code = 400
            /\ response[r].detail = NoDataExtracted.detail
            /\ ~Ran(r, "config")
        /\ Ran(r, "config") => Ran(r, "stamp")
        /\ (raised[r].type = "HTTPException" /\ raised[r].status_code = 500)
                => Ran(r, "stamp") /\ ~Truthy(MONGODB_URI)
        /\ Done(r) => response[r].status_code = OutcomeStatus(r)

\* with MONGODB_URI unset, an oversize upload named "r.txt" answered "File
\* must be a PDF" and an empty extraction answered its own 400
C15_Witness ==
    /\ MONGODB_URI = None
    /\ \E r, q \in Requests :
        /\ request[r].kind = "multipart"
        /\ request[r].filename = << "r", ".", "t", "x", "t" >>
        /\ request[r].size = 10485761
        /\ response[r].detail = "File must be a PDF"
        /\ Done(q)
        /\ Extracted(q)
        /\ request[q].doc = "0"
        /\ response[q].status_code = 400

PingFailed(r) == raised[r] = Exception("ServerSelectionTimeoutError")

\* C16: a request that reaches the persistence step holds a non-empty batch,
\* as long as the parser's table: insert_many is never skipped, no success
\* reports 0 records, and a request whose client was created and whose ping
\* succeeded has entered insert_many.
C16_PersistenceOnlyWithRecords ==
    \A r \in Requests :
        /\ (pc[r] \in {"upload", "ping", "insert", "close"}
                \/ Ran(r, "config")) =>
            /\ records[r] /= << >>
            /\ Len(records[r]) = Len(Parsed(r))
        /\ response[r].type = "ok" =>
            /\ response[r].records_count > 0
            /\ Ran(r, "insert")
            /\ inserted[r] = response[r].records_count
        /\ (pc[r] = "close" \/ client[r] = "closed") =>
            /\ Ran(r, "insert")
            /\ inserted[r] = Len(records[r])
            /\ inserted[r] > 0
        /\ (Done(r) /\ client[r] /= "none" /\ ~PingFailed(r)) =>
                Ran(r, "insert")

\* a request is about to close its client after inserting its whole batch
C16_Witness ==
    \E r \in Requests :
        /\ pc[r] = "close"
        /\ client[r] = "open"
        /\ inserted[r] = MaxRecords
        /\ Cardinality(DocsOf(r)) = MaxRecords

\* the request passed its gate: its canonical bytes went on to staging
PassedGate(r) ==
    /\ pdf_content[r] /= NoContent
    /\ Len(trace[r]) >= 2
    /\ trace[r][2] = "stage"

\* the fault the file system or the store dealt a request, if any
EnvironmentFault(r) ==
    IF raised[r] \in { Exception("OSError: cannot create temporary file"),
                       Exception("OSError: No space left on device"),
                       Exception("ServerSelectionTimeoutError"),
                       Exception("BulkWriteError") }
    THEN raised[r]
    ELSE NoException

\* two requests met the same file system and store behaviour
SameEnvironment(r, q) ==
    /\ EnvironmentFault(r) = EnvironmentFault(q)
    /\ EnvironmentFault(r) = Exception("BulkWriteError") =>
            inserted[r] = inserted[q]

\* the contents a request left in the collection, by position in its batch
StoreEffect(r) == {[i |-> d.id[2], doc |-> d.doc] : d \in DocsOf(r)}

\* C17: a multipart request and a base64 request that passed their gates with
\* the same bytes and the same date, and met the same file system and store
\* behaviour (the configuration is the one shared environment), ran the same
\* steps after validation and ended the same: same response (success flag,
\* status, records_count, detail), same batch, same client state, same
\* documents written.
C17_IngressPathsEquivalentAfterGate ==
    \A r, q \in Requests :
        ( /\ request[r].kind = "multipart"
          /\ request[q].kind = "base64"
          /\ Done(r) /\ Done(q)
          /\ PassedGate(r) /\ PassedGate(q)
          /\ pdf_content[r] = pdf_content[q]
          /\ request[r].date = request[q].date
          /\ SameEnvironment(r, q) )
        => /\ Tail(trace[r]) = Tail(trace[q])
           /\ response[r] = response[q]
           /\ records[r] = records[q]
           /\ client[r] = client[q]
           /\ inserted[r] = inserted[q]
           /\ StoreEffect(r) = StoreEffect(q)

\* a multipart and a base64 request carrying the same bytes and date have
\* both succeeded
C17_Witness ==
    \E r, q \in Requests :
        /\ request[r].kind = "multipart"
        /\ request[q].kind = "base64"
        /\ pdf_content[r] = pdf_content[q]
        /\ pdf_content[r].doc = ToString(MaxRecords)
        /\ request[r].date = request[q].date
        /\ response[r].type = "ok"
        /\ response[q].type = "ok"
        /\ StoreEffect(r) /= {}

====
